---- MODULE Spec2Model ----
(***************************************************************************)
(* Model of gemini_watermark_bot/watermark.py: the alpha-map provider      *)
(* (_load_alpha_map behind functools.lru_cache), the watermark geometry    *)
(* (detect_watermark_config, calculate_watermark_position) and the         *)
(* reverse alpha blend of remove_watermark, with numpy's float32           *)
(* arithmetic modelled bit-exactly (round to nearest, ties to even).       *)
(***************************************************************************)
EXTENDS Integers, Sequences, FiniteSets, TLC

(***************************************************************************)
(* IEEE-754 binary32 values.  A float is [s, m, e] with value s*m*2^e,     *)
(* s in {-1,0,1}, and 2^23 <= m < 2^24 unless the value is zero.  Every    *)
(* intermediate integer stays below 2^31.                                  *)
(***************************************************************************)
Pow2(k) == 2 ^ k

F32Zero == [s |-> 0, m |-> 0, e |-> 0]

Abs(n) == IF n < 0 THEN 0 - n ELSE n

Sign(n) == IF n < 0 THEN 0 - 1 ELSE IF n = 0 THEN 0 ELSE 1

\* Number of significant bits of a (0 for a = 0), a < 2^31.
BitLen(a) == IF a = 0 THEN 0 ELSE CHOOSE L \in 1..31 : Pow2(L - 1) <= a /\ (L = 31 \/ a < Pow2(L))

\* The float32 nearest to s*(a + t)*2^e, where a < 2^31 is a natural and
\* t is 0 (sticky = FALSE) or some real strictly between 0 and 1 (sticky =
\* TRUE, which needs a >= 2^24).  Ties go to the even mantissa.
F32Round(s, a, sticky, e) ==
    IF a = 0 THEN F32Zero
    ELSE LET L == BitLen(a) IN
         IF L <= 24
         THEN [s |-> s, m |-> a * Pow2(24 - L), e |-> e - (24 - L)]
         ELSE LET sh   == L - 24
                  q    == a \div Pow2(sh)
                  r    == a % Pow2(sh)
                  half == Pow2(sh - 1)
                  up   == r > half \/ (r = half /\ (sticky \/ q % 2 = 1))
                  q1   == IF up THEN q + 1 ELSE q
              IN IF q1 = Pow2(24)
                 THEN [s |-> s, m |-> Pow2(23), e |-> e + sh + 1]
                 ELSE [s |-> s, m |-> q1, e |-> e + sh]

\* An integer as a float32 (np.asarray(..., dtype=np.float32) of uint8 data,
\* and the Python scalars 255, 1.0 of the arithmetic).
F32FromInt(n) == F32Round(Sign(n), Abs(n), FALSE, 0)

\* x < y, x = y on floats.
F32Less(x, y) ==
    IF x.s # y.s THEN x.s < y.s
    ELSE IF x.s = 0 THEN FALSE
    ELSE IF x.s = 1 THEN x.e < y.e \/ (x.e = y.e /\ x.m < y.m)
    ELSE y.e < x.e \/ (x.e = y.e /\ y.m < x.m)

F32Min(x, y) == IF F32Less(y, x) THEN y ELSE x

F32Max(x, y) == IF F32Less(x, y) THEN y ELSE x

\* Long division: <<floor(r * 2^n / d), remainder>> for 0 <= r < d < 2^25.
RECURSIVE LongDiv(_, _, _, _)
LongDiv(q, r, d, n) ==
    IF n = 0 THEN <<q, r>>
    ELSE IF 2 * r >= d THEN LongDiv(2 * q + 1, 2 * r - d, d, n - 1)
         ELSE LongDiv(2 * q, 2 * r, d, n - 1)

\* An infinity of sign s: above (below) every finite value.
F32Inf(s) == [s |-> s, m |-> Pow2(23), e |-> 105]

\* x / y in float32, x / 0 an infinity for x # 0.
F32Div(x, y) ==
    IF x.s = 0 THEN F32Zero
    ELSE IF y.s = 0 THEN F32Inf(x.s)
    ELSE LET big == x.m >= y.m
             qr  == IF big THEN LongDiv(1, x.m - y.m, y.m, 23)
                           ELSE LongDiv(0, x.m, y.m, 24)
             q   == qr[1]
             r   == qr[2]
             up  == 2 * r > y.m \/ (2 * r = y.m /\ q % 2 = 1)
             q1  == IF up THEN q + 1 ELSE q
             e0  == x.e - y.e - (IF big THEN 23 ELSE 24)
         IN IF q1 = Pow2(24)
            THEN [s |-> x.s * y.s, m |-> Pow2(23), e |-> e0 + 1]
            ELSE [s |-> x.s * y.s, m |-> q1, e |-> e0]

\* x * c in float32 for a float x >= 0 and an integer 0 < c < 256 (the
\* product of the mantissa by c needs up to 32 bits: it is formed halved,
\* with its lowest bit kept as the sticky bit).
F32MulInt(x, c) ==
    IF x.s = 0 THEN F32Zero
    ELSE LET h    == x.m \div 256
             l    == x.m % 256
             half == c * 128 * h + (c * l) \div 2
             bit  == (c * l) % 2
         IN F32Round(x.s, half, bit = 1, x.e + 1)

\* v - y in float32 for an integer 0 <= v <= 255 and a float 0 <= y < 256.
\* The difference is exact in 31 bits when y's unit is coarse enough; when
\* it is not, y is far smaller than v and its low bits only act as a
\* sticky bit.
F32IntMinus(v, y) ==
    IF y.s = 0 THEN F32FromInt(v)
    ELSE IF v = 0 THEN [s |-> 0 - 1, m |-> y.m, e |-> y.e]
    ELSE LET k  == 0 - y.e
             jv == BitLen(v) - 1
         IN IF k <= 29 - jv
            THEN LET n == v * Pow2(k) - y.m
                 IN F32Round(Sign(n), Abs(n), FALSE, y.e)
            ELSE LET w   == 29 - jv
                     sh  == k - w
                     yq  == IF sh >= 24 THEN 0 ELSE y.m \div Pow2(sh)
                     st  == sh >= 24 \/ y.m % Pow2(sh) # 0
                     n   == v * Pow2(w) - yq
                 IN IF st THEN F32Round(1, n - 1, TRUE, 0 - w)
                          ELSE F32Round(1, n, FALSE, 0 - w)

\* astype(np.uint8) of a float already clipped into [0, 255]: truncation.
F32Trunc(x) ==
    IF x.s = 0 THEN 0
    ELSE IF x.e >= 0 THEN x.m * Pow2(x.e)
    ELSE IF 0 - x.e >= 24 THEN 0
    ELSE x.m \div Pow2(0 - x.e)

(***************************************************************************)
(* watermark.py, constants (lines 14-16).  The Python literals meet        *)
(* float32 arrays, so numpy uses them as float32 values.                   *)
(***************************************************************************)
\* The float32 nearest to the rational n/d (n >= 0, d > 0, both below 2^24).
F32FromRatio(n, d) == F32Div(F32FromInt(n), F32FromInt(d))

ALPHA_THRESHOLD == F32FromRatio(2, 1000)

MAX_ALPHA == F32FromRatio(99, 100)

LOGO_VALUE == 255

\* Mutant of Masked: the threshold taken exclusive (alpha > ALPHA_THRESHOLD).
MaskedExclusive(alpha) == F32Less(ALPHA_THRESHOLD, alpha)

\* mask = alpha >= ALPHA_THRESHOLD (line 72).
Masked(alpha) == ~F32Less(alpha, ALPHA_THRESHOLD)

\* Mutant of Capped: the alpha left uncapped.
CappedNoCap(alpha) == alpha

\* capped = np.minimum(alpha, MAX_ALPHA) (line 73).
Capped(alpha) == F32Min(alpha, MAX_ALPHA)

\* one_minus = 1.0 - capped (line 74).
OneMinus(alpha) == F32IntMinus(1, Capped(alpha))

\* Mutant of Restored: the division by one_minus left out.
RestoredNoDivide(v, alpha) == F32IntMinus(v, F32MulInt(Capped(alpha), LOGO_VALUE))

\* restored = (arr - a3 * LOGO_VALUE) / om3 (line 80), one channel value.
Restored(v, alpha) ==
    F32Div(F32IntMinus(v, F32MulInt(Capped(alpha), LOGO_VALUE)), OneMinus(alpha))

\* Mutant of ClipToU8: astype(np.uint8) without np.clip, the integer wrapped
\* modulo 256.
ClipWrapU8(x) == (x.s * F32Trunc(x)) % 256

\* np.clip(restored, 0, 255).astype(np.uint8) (line 81).
ClipToU8(x) == F32Trunc(F32Max(F32FromInt(0), F32Min(x, F32FromInt(255))))

\* np.where(mask3, restored, original) (lines 84-86), one channel value.
BlendChannel(v, alpha) == IF Masked(alpha) THEN ClipToU8(Restored(v, alpha)) ELSE v

(***************************************************************************)
(* Watermark geometry (lines 38-52).                                       *)
(***************************************************************************)
\* Mutant of detect_watermark_config: "or" in place of "and".
detect_watermark_config_or(width, height) ==
    IF width > 1024 \/ height > 1024
    THEN [logo_size |-> 96, margin_right |-> 64, margin_bottom |-> 64]
    ELSE [logo_size |-> 48, margin_right |-> 32, margin_bottom |-> 32]

detect_watermark_config(width, height) ==
    IF width > 1024 /\ height > 1024
    THEN [logo_size |-> 96, margin_right |-> 64, margin_bottom |-> 64]
    ELSE [logo_size |-> 48, margin_right |-> 32, margin_bottom |-> 32]

\* Mutant of calculate_watermark_position: the logo size not subtracted.
calculate_watermark_position_no_logo(width, height, config) ==
    [x |-> width - config.margin_right,
     y |-> height - config.margin_bottom,
     w |-> config.logo_size,
     h |-> config.logo_size]

calculate_watermark_position(width, height, config) ==
    [x |-> width - config.margin_right - config.logo_size,
     y |-> height - config.margin_bottom - config.logo_size,
     w |-> config.logo_size,
     h |-> config.logo_size]

\* Image sides of the geometry specification: around the smallest image
\* that holds the small profile's footprint (32 + 48 = 80), around the
\* profile threshold 1024, and three others.
GeomSpread == 2

Sides ==
    {80 - i : i \in 0..GeomSpread} \cup {80 + i : i \in 0..GeomSpread}
      \cup {1024 - i : i \in 0..GeomSpread} \cup {1024 + i : i \in 0..GeomSpread}
      \cup {1, 1500, 2000}

NoConfig == [logo_size |-> 0, margin_right |-> 0, margin_bottom |-> 0]

NoPosition == [x |-> 0, y |-> 0, w |-> 0, h |-> 0]

(***************************************************************************)
(* The alpha map.  _load_alpha_map derives each entry from a pixel of the  *)
(* reference asset, max(R,G,B) / 255.0 in float32 (line 32); an alpha map  *)
(* handed to the blend directly is a float32 array as well.  An alpha      *)
(* input <<n, d>> stands for the float32 nearest to n/d.                   *)
(***************************************************************************)
AlphaValue(a) == F32FromRatio(a[1], a[2])

\* The alpha inputs of the per-channel specification, most telling first:
\* the two sides of the threshold, 0, 1, the two sides of the cap,
\* asset-derived values k/255, and a value just below 5/6 (where
\* 1/(2(1 - alpha)) is just below an integer, so that a float32 rounding
\* error in the quotient moves the truncated result by a whole unit).
AlphaInputs ==
    << <<19, 10000>>, <<20, 10000>>, <<0, 10000>>, <<10000, 10000>>,
       <<9900, 10000>>, <<9899, 10000>>, <<5000, 10000>>, <<5020, 10000>>,
       <<9000, 10000>>, <<1, 255>>, <<86, 255>>, <<128, 255>>,
       <<131, 255>>, <<255, 255>>, <<252, 255>>, <<253, 255>>,
       <<21, 10000>>, <<7500, 10000>>, <<65, 255>>, <<833333, 1000000>>,
       <<200, 255>>, <<9950, 10000>>, <<100, 255>>, <<3333, 10000>>,
       <<2, 255>> >>

NumAlphas == 20

Alphas == {AlphaInputs[i] : i \in 1..NumAlphas}

Bytes == 0..255

(***************************************************************************)
(* Images.  A bitmap is [mode, w, h, px]; px gives the pixel tuples at the *)
(* probed coordinates <<column, row>> of the image (the corners of the     *)
(* watermark rectangle, their neighbours outside it and the corners of the *)
(* image).  Every operation of remove_watermark is elementwise, so a pixel *)
(* that is not probed is treated as the probed ones are.                   *)
(***************************************************************************)
Max2(a, b) == IF a < b THEN b ELSE a

Min2(a, b) == IF a < b THEN a ELSE b

\* The rectangle remove_watermark computes for a w x h image (lines 62-63).
RectOf(w, h) == calculate_watermark_position(w, h, detect_watermark_config(w, h))

InImage(p, w, h) == 0 <= p[1] /\ p[1] < w /\ 0 <= p[2] /\ p[2] < h

\* p lies in the box (x, y, x + ww, y + hh) of crop and paste.
InBox(p, x, y, ww, hh) == x <= p[1] /\ p[1] < x + ww /\ y <= p[2] /\ p[2] < y + hh

Probes(w, h) ==
    LET r == RectOf(w, h)
        c == { <<Max2(r.x, 0), Max2(r.y, 0)>>, <<r.x + r.w - 1, r.y + r.h - 1>>,
               <<r.x - 1, Max2(r.y, 0)>>, <<r.x + r.w, r.y + r.h - 1>>,
               <<Max2(r.x, 0), r.y - 1>>, <<r.x + r.w - 1, r.y + r.h>>,
               <<0, 0>>, <<w - 1, h - 1>> }
    IN {p \in c : InImage(p, w, h)}

\* The pixel of a test pattern at p, in the image's mode.
PatternPixel(pat, mode, p) ==
    LET r == IF pat = "white" THEN 255 ELSE IF pat = "black" THEN 0 ELSE (3 * p[1] + 90) % 256
        g == IF pat = "white" THEN 255 ELSE IF pat = "black" THEN 0 ELSE (5 * p[2] + 7) % 256
        b == IF pat = "white" THEN 255 ELSE IF pat = "black" THEN 0 ELSE (p[1] + p[2]) % 256
    IN IF mode = "L" THEN <<b>>
       ELSE IF mode = "RGBA" THEN <<r, g, b, 128>>
       ELSE <<r, g, b>>

MakeImage(mode, w, h, pat) ==
    [mode |-> mode, w |-> w, h |-> h,
     px |-> [p \in Probes(w, h) |-> PatternPixel(pat, mode, p)]]

NoImage == [mode |-> "none", w |-> 0, h |-> 0, px |-> <<>>]

\* image.convert("RGB") (line 59): a new image; an alpha channel is
\* dropped, a grey value is repeated.
ConvertRGB(img) ==
    [mode |-> "RGB", w |-> img.w, h |-> img.h,
     px |-> [p \in DOMAIN img.px |->
               IF img.mode = "L" THEN <<img.px[p][1], img.px[p][1], img.px[p][1]>>
               ELSE <<img.px[p][1], img.px[p][2], img.px[p][3]>>]]

\* image.crop((x, y, x + ww, y + hh)) (line 68), in the region's own
\* coordinates.
Crop(img, x, y, ww, hh) ==
    [mode |-> "RGB", w |-> ww, h |-> hh,
     px |-> [q \in {<<p[1] - x, p[2] - y>> : p \in {p \in DOMAIN img.px : InBox(p, x, y, ww, hh)}}
               |-> img.px[<<q[1] + x, q[2] + y>>]]]

\* Mutant of Paste: the patch pasted at the image's origin.
PasteAtOrigin(img, patch, x, y) ==
    [img EXCEPT !.px = [p \in DOMAIN img.px |->
        IF p \in DOMAIN patch.px THEN patch.px[p] ELSE img.px[p]]]

\* out.paste(patched, (x, y)) (line 90): the pixels of the box taken from
\* the patch, the others kept.
Paste(img, patch, x, y) ==
    [img EXCEPT !.px = [p \in DOMAIN img.px |->
        IF InBox(p, x, y, patch.w, patch.h)
        THEN patch.px[<<p[1] - x, p[2] - y>>]
        ELSE img.px[p]]]

\* The input images: sizes (most telling first), modes and patterns.
ImageSizes ==
    << <<2000, 1500>>, <<80, 80>>, <<1024, 2000>>, <<60, 200>>,
       <<100, 90>>, <<10, 10>>, <<1025, 1025>>, <<1500, 1025>> >>

NumSizes == 6

Modes == {"RGB", "RGBA", "L"}

Patterns == {"white", "black", "ramp"}

(***************************************************************************)
(* Reference assets and alpha maps.  An asset is bg_<size>.png: missing,   *)
(* undecodable, or an image [w, h, pat] whose pixel at <<column, row>> is  *)
(* AssetPixel.  An alpha map is [h, w, pat], its entry at (row, column)    *)
(* derived from the asset's pixel there (line 32).                         *)
(***************************************************************************)
LogoSizes == {48, 96}

AssetPixel(pat, col, row) ==
    LET k == IF pat = "zero" THEN 0 ELSE IF pat = "full" THEN 255
             ELSE (7 * col + 13 * row + 1) % 256
    IN <<k, k \div 2, 0>>

Max3(t) == Max2(t[1], Max2(t[2], t[3]))

\* arr.max(axis=2) / 255.0 at (row, col) (lines 31-32).
AlphaAt(amap, row, col) == AlphaValue(<<Max3(AssetPixel(amap.pat, col, row)), 255>>)

NoMap == [h |-> 0, w |-> 0, pat |-> "none"]

MissingAsset == [w |-> 0, h |-> 0, pat |-> "missing"]

CorruptAsset == [w |-> 0, h |-> 0, pat |-> "corrupt"]

\* A file with a valid header whose pixel data is cut short.
TruncatedAsset == [w |-> 0, h |-> 0, pat |-> "truncated"]

AssetPatterns == {"zero", "full", "logo"}

AssetChoices(size) ==
    {MissingAsset, CorruptAsset, TruncatedAsset}
        \cup {[w |-> size, h |-> size, pat |-> pt] : pt \in AssetPatterns}

\* Mutant of LoadBody: a failure to open or decode the asset swallowed,
\* an empty alpha map returned in its place.
LoadBodySwallow(asset) ==
    IF asset \in {MissingAsset, CorruptAsset, TruncatedAsset}
    THEN [exc |-> "", map |-> [h |-> 0, w |-> 0, pat |-> "zero"]]
    ELSE [exc |-> "", map |-> [h |-> asset.h, w |-> asset.w, pat |-> asset.pat]]

\* The body of _load_alpha_map (lines 29-33): the alpha map, or the
\* exception raised on the way: by Image.open for a file that is not there
\* or is not recognised as an image, by convert for one whose data is cut
\* short.  No handler stands between line 30 and the caller.
LoadBody(asset) ==
    IF asset = MissingAsset THEN [exc |-> "FileNotFoundError", map |-> NoMap]
    ELSE IF asset = CorruptAsset THEN [exc |-> "UnidentifiedImageError", map |-> NoMap]
    ELSE IF asset = TruncatedAsset THEN [exc |-> "OSError", map |-> NoMap]
    ELSE [exc |-> "", map |-> [h |-> asset.h, w |-> asset.w, pat |-> asset.pat]]

(***************************************************************************)
(* functools.lru_cache (line 21).  The cache is the sequence of its        *)
(* entries [key, val], least recently used first.                          *)
(***************************************************************************)
\* Mutant of CacheMaxSize: room for one entry.
CacheMaxSizeOne == 2 - 1

CacheMaxSize == 2

CacheIndex(cache, key) ==
    IF \E i \in 1..Len(cache) : cache[i].key = key
    THEN CHOOSE i \in 1..Len(cache) : cache[i].key = key
    ELSE 0

Without(cache, i) == [j \in 1..(Len(cache) - 1) |-> IF j < i THEN cache[j] ELSE cache[j + 1]]

\* A hit moves the entry to the most recently used end.
CacheTouch(cache, key) ==
    LET i == CacheIndex(cache, key) IN Append(Without(cache, i), cache[i])

\* Mutant of CacheStore: the result stored without looking for the key
\* again.
CacheStoreNoRecheck(cache, key, val) ==
    IF Len(cache) >= CacheMaxSize
    THEN Append(Without(cache, 1), [key |-> key, val |-> val])
    ELSE Append(cache, [key |-> key, val |-> val])

\* A miss stores the result once the function has returned, evicting the
\* least recently used entry of a full cache; a key stored meanwhile is
\* left as it is.
CacheStore(cache, key, val) ==
    IF CacheIndex(cache, key) # 0 THEN cache
    ELSE IF Len(cache) >= CacheMaxSize
         THEN Append(Without(cache, 1), [key |-> key, val |-> val])
         ELSE Append(cache, [key |-> key, val |-> val])

(***************************************************************************)
(* remove_watermark (lines 57-91) on the heap of image objects: "caller"   *)
(* is the object the caller passed, "converted" the result of convert,     *)
(* "out" the copy that is pasted into and returned.                        *)
(***************************************************************************)
BlendPixel(px, alpha) ==
    <<BlendChannel(px[1], alpha), BlendChannel(px[2], alpha), BlendChannel(px[3], alpha)>>

\* alpha = alpha_map[:hh, :ww] (line 71): the shape of the slice.
AlignedH(amap, hh) == Min2(amap.h, hh)

AlignedW(amap, ww) == Min2(amap.w, ww)

\* numpy broadcasts the (ah, aw, 1) alpha against the (hh, ww, 3) region
\* when each axis agrees or has length 1, and raises ValueError otherwise.
Broadcasts(amap, hh, ww) ==
    /\ AlignedH(amap, hh) = hh \/ AlignedH(amap, hh) = 1
    /\ AlignedW(amap, ww) = ww \/ AlignedW(amap, ww) = 1

\* Lines 69-88: the patched region.
Patched(region, amap) ==
    [region EXCEPT !.px = [q \in DOMAIN region.px |->
        BlendPixel(region.px[q],
                   AlphaAt(amap,
                           IF AlignedH(amap, region.h) = 1 THEN 0 ELSE q[2],
                           IF AlignedW(amap, region.w) = 1 THEN 0 ELSE q[1]))]]

\* Mutant of Returned: the work done in place on the caller's image.
ReturnedInPlace(hp, amap) ==
    LET r == RectOf(hp.caller.w, hp.caller.h)
        conv == ConvertRGB(hp.caller)
    IN IF ~Broadcasts(amap, r.h, r.w)
       THEN [heap |-> hp, ret |-> "ValueError"]
       ELSE [heap |-> [hp EXCEPT !.caller =
                          Paste(conv, Patched(Crop(conv, r.x, r.y, r.w, r.h), amap), r.x, r.y)],
             ret |-> "caller"]

\* Lines 59-91 once the alpha map is at hand: the heap and what is
\* returned (the name of the returned object, or the exception raised).
Returned(hp, amap) ==
    LET r  == RectOf(hp.caller.w, hp.caller.h)
        h1 == [hp EXCEPT !.converted = ConvertRGB(hp.caller)]
    IN IF ~Broadcasts(amap, r.h, r.w)
       THEN [heap |-> h1, ret |-> "ValueError"]
       ELSE LET region  == Crop(h1.converted, r.x, r.y, r.w, r.h)
                patched == Patched(region, amap)
                h2      == [h1 EXCEPT !.out = h1.converted]
            IN [heap |-> [h2 EXCEPT !.out = Paste(h2.out, patched, r.x, r.y)],
                ret |-> "out"]

NoValue == 0 - 1

VARIABLES
    bv,     \* per-channel run: the observed channel value (arr)
    ba,     \* per-channel run: the alpha input at that pixel
    bout,   \* per-channel run: the value written (result), NoValue before
    gw, gh, \* geometry run: the image's width and height
    gcfg,   \* geometry run: config (NoConfig before line 62)
    gpos,   \* geometry run: pos (NoPosition before line 63)
    assets, \* the reference asset of each logo size (ASSETS_DIR/bg_<size>.png)
    cache,  \* the lru_cache of _load_alpha_map
    loads,  \* per logo size, how often the asset was opened and decoded
    heap,   \* the image objects of the current call
    ret,    \* what the current call returned or raised, "none" before
    pc,     \* "idle", "ready" (the caller holds an image), "returned"
    lastHit,\* whether the last call found its alpha map in the cache
    hist,   \* the logo sizes of the last two calls
    tpc,    \* per thread: "idle", "loading", "loaded", "done"
    tkey,   \* per thread: the logo size its call asks for
    tres,   \* per thread: the alpha map its call got, or the exception
    rate,   \* bot: context.user_data["rate"] of the user (NoRate: no such key)
    history,\* bot: context.user_data["history"] of the user, newest first
    today,  \* bot: datetime.date.today(), as a day number
    nextFile,\* bot: the file_id Telegram gives the next document sent
    job,    \* bot: per task, the handler it runs and how far it is
    served  \* bot: the requests the handlers have taken up so far

blendVars == <<bv, ba, bout>>

geomVars == <<gw, gh, gcfg, gpos>>

cacheVars == <<assets, cache, loads>>

callVars == <<heap, ret, pc, lastHit, hist>>

threadVars == <<tpc, tkey, tres>>

botVars == <<rate, history, today, nextFile, job, served>>

vars == <<bv, ba, bout, gw, gh, gcfg, gpos, assets, cache, loads, heap, ret, pc,
          lastHit, hist, tpc, tkey, tres, rate, history, today, nextFile, job,
          served>>

\* The variables of a run that a specification does not exercise.
BlendIdle == bv = 0 /\ ba = <<0, 10000>> /\ bout = NoValue

GeomIdle == gw = 1 /\ gh = 1 /\ gcfg = NoConfig /\ gpos = NoPosition

EmptyHeap == [caller |-> NoImage, converted |-> NoImage, out |-> NoImage]

NumThreads == 2

Threads == 1..NumThreads

NoResult == [exc |-> "", map |-> NoMap]

CacheIdle ==
    /\ assets = [sz \in LogoSizes |-> MissingAsset]
    /\ cache = <<>>
    /\ loads = [sz \in LogoSizes |-> 0]

ThreadIdle ==
    /\ tpc = [t \in Threads |-> "idle"]
    /\ tkey = [t \in Threads |-> 48]
    /\ tres = [t \in Threads |-> NoResult]

CallIdle ==
    /\ heap = EmptyHeap
    /\ ret = "none"
    /\ pc = "idle"
    /\ lastHit = FALSE
    /\ hist = <<>>

(***************************************************************************)
(* bot.py: the per-user quota and history kept in context.user_data.       *)
(***************************************************************************)
MAX_IMAGES_PER_DAY == 50

HISTORY_SIZE == 20

\* user_data without a "rate" key: rate.get("date") is no day at all.
NoRate == [date |-> 0, count |-> 0]

\* The rate a helper works on (lines 52-54, 64-66): a fresh one when the
\* stored one is missing or of another day.
RateOf(r, day) == IF r.date # day THEN [date |-> day, count |-> 0] ELSE r

\* _check_rate_limit (lines 49-58): the rate left in user_data (a fresh one
\* is stored, line 55), and the pair returned.
check_rate_limit(r, day, count) ==
    [rate      |-> RateOf(r, day),
     allowed   |-> count <= MAX_IMAGES_PER_DAY - RateOf(r, day).count,
     remaining |-> MAX_IMAGES_PER_DAY - RateOf(r, day).count]

\* _increment_rate (lines 61-68): the rate left in user_data.
increment_rate(r, day, count) == [RateOf(r, day) EXCEPT !.count = @ + count]

\* Mutant of add_to_history: the entry appended at the far end.
add_to_history_append(h, entry) ==
    SubSeq(h \o <<entry>>, 1, Min2(Len(h) + 1, HISTORY_SIZE))

\* _add_to_history (lines 75-79): history.insert(0, entry), then the first
\* HISTORY_SIZE entries stored.
add_to_history(h, entry) ==
    SubSeq(<<entry>> \o h, 1, Min2(Len(h) + 1, HISTORY_SIZE))

\* The history entry of a document sent (lines 168-173, 477-482), known by
\* the file_id Telegram gave the document.
Entry(file) == [file_id |-> file]

\* The tasks that touch one user's data: task 0 is the dispatcher, which
\* awaits one update handler (_handle_single, handle_zip) at a time; the
\* others are _flush_group coroutines, each started by ensure_future
\* (line 397) and running beside the dispatcher.
NumFlushes == 1

Tasks == 0..NumFlushes

\* The most images in one media group or ZIP archive.
MaxBatch == 2

\* The most requests (single images, media groups, archives) of a run.
MaxRequests == 3

\* The days a run spans.
NumDays == 2

IdleJob == [pc |-> "idle", kind |-> "none", n |-> 0, i |-> 0, ok |-> 0]

BotIdle ==
    /\ rate = NoRate
    /\ history = <<>>
    /\ today = 1
    /\ nextFile = HISTORY_SIZE + 1
    /\ job = [t \in Tasks |-> IdleJob]
    /\ served = 0

(***************************************************************************)
(* Per-channel specification: lines 71-86 of remove_watermark on one       *)
(* channel of one pixel of the region.                                     *)
(***************************************************************************)
BlendInit ==
    /\ bv \in Bytes
    /\ ba \in Alphas
    /\ bout = NoValue
    /\ GeomIdle
    /\ CacheIdle
    /\ CallIdle
    /\ ThreadIdle
    /\ BotIdle

Blend ==
    /\ bout = NoValue
    /\ bout' = BlendChannel(bv, AlphaValue(ba))
    /\ UNCHANGED <<bv, ba>>
    /\ UNCHANGED <<geomVars, cacheVars, callVars, threadVars, botVars>>

BlendNext == Blend

SpecBlend == BlendInit /\ [][BlendNext]_vars

(***************************************************************************)
(* Geometry specification: lines 60-63 of remove_watermark on an image of  *)
(* size gw x gh.                                                           *)
(***************************************************************************)
GeomInit ==
    /\ gw \in Sides
    /\ gh \in Sides
    /\ gcfg = NoConfig
    /\ gpos = NoPosition
    /\ BlendIdle
    /\ CacheIdle
    /\ CallIdle
    /\ ThreadIdle
    /\ BotIdle

DetectConfig ==
    /\ gcfg = NoConfig
    /\ gcfg' = detect_watermark_config(gw, gh)
    /\ UNCHANGED <<gw, gh, gpos>>
    /\ UNCHANGED <<blendVars, cacheVars, callVars, threadVars, botVars>>

CalculatePosition ==
    /\ gcfg # NoConfig
    /\ gpos = NoPosition
    /\ gpos' = calculate_watermark_position(gw, gh, gcfg)
    /\ UNCHANGED <<gw, gh, gcfg>>
    /\ UNCHANGED <<blendVars, cacheVars, callVars, threadVars, botVars>>

GeomNext == DetectConfig \/ CalculatePosition

SpecGeom == GeomInit /\ [][GeomNext]_vars

(***************************************************************************)
(* Sequential specification: a caller obtains an image and calls           *)
(* remove_watermark on it, again and again, as bot.py does (lines 145-146  *)
(* and 450-451); the assets on disk do not change.                         *)
(***************************************************************************)
Init ==
    /\ assets \in [LogoSizes -> UNION {AssetChoices(sz) : sz \in LogoSizes}]
    /\ \A sz \in LogoSizes : assets[sz] \in AssetChoices(sz)
    /\ cache = <<>>
    /\ loads = [sz \in LogoSizes |-> 0]
    /\ heap = EmptyHeap
    /\ ret = "none"
    /\ pc = "idle"
    /\ lastHit = FALSE
    /\ hist = <<>>
    /\ BlendIdle
    /\ GeomIdle
    /\ ThreadIdle
    /\ BotIdle

\* img = Image.open(...): the caller holds a freshly decoded image.
Submit ==
    /\ pc \in {"idle", "returned"}
    /\ \E i \in 1..NumSizes, mode \in Modes, pat \in Patterns :
          heap' = [EmptyHeap EXCEPT
                     !.caller = MakeImage(mode, ImageSizes[i][1], ImageSizes[i][2], pat)]
    /\ ret' = "none"
    /\ pc' = "ready"
    /\ UNCHANGED <<assets, cache, loads, lastHit, hist>>
    /\ UNCHANGED <<blendVars, geomVars, threadVars, botVars>>

\* The logo size the call asks the alpha map for (lines 60-64).
KeyOf(img) == detect_watermark_config(img.w, img.h).logo_size

Push(h, key) == IF Len(h) < 2 THEN Append(h, key) ELSE <<h[2], key>>

\* cleaned = remove_watermark(img), the alpha map found in the cache.
CallHit ==
    /\ pc = "ready"
    /\ CacheIndex(cache, KeyOf(heap.caller)) # 0
    /\ LET key == KeyOf(heap.caller)
           res == Returned(heap, cache[CacheIndex(cache, key)].val)
       IN /\ cache' = CacheTouch(cache, key)
          /\ heap' = res.heap
          /\ ret' = res.ret
          /\ hist' = Push(hist, key)
    /\ lastHit' = TRUE
    /\ pc' = "returned"
    /\ UNCHANGED <<assets, loads>>
    /\ UNCHANGED <<blendVars, geomVars, threadVars, botVars>>

\* cleaned = remove_watermark(img), the alpha map loaded: the body of
\* _load_alpha_map runs, and its result is stored unless it raised.
CallMiss ==
    /\ pc = "ready"
    /\ CacheIndex(cache, KeyOf(heap.caller)) = 0
    /\ LET key  == KeyOf(heap.caller)
           body == LoadBody(assets[key])
       IN /\ hist' = Push(hist, key)
          /\ IF body.exc # ""
             THEN /\ heap' = [heap EXCEPT !.converted = ConvertRGB(heap.caller)]
                  /\ ret' = body.exc
                  /\ UNCHANGED <<cache, loads>>
             ELSE LET res == Returned(heap, body.map)
                  IN /\ loads' = [loads EXCEPT ![key] = @ + 1]
                     /\ cache' = CacheStore(cache, key, body.map)
                     /\ heap' = res.heap
                     /\ ret' = res.ret
    /\ lastHit' = FALSE
    /\ pc' = "returned"
    /\ UNCHANGED assets
    /\ UNCHANGED <<blendVars, geomVars, threadVars, botVars>>

Next == Submit \/ CallHit \/ CallMiss

Spec == Init /\ [][Next]_vars

(***************************************************************************)
(* The sequential specification over assets whose bitmap is not of the     *)
(* logo size: wider or narrower, taller or shorter than the region, or a   *)
(* single row.  _load_alpha_map takes the alpha map's shape from the file  *)
(* (lines 30-32) and remove_watermark checks it nowhere before line 71.    *)
(***************************************************************************)
AlignShapes(size) ==
    { <<size, size>>, <<size + 8, size + 8>>, <<size + 8, size>>, <<size, size - 8>>,
      <<size - 8, size - 8>>, <<size - 8, size + 8>>, <<1, size>> }

AlignChoices(size) == {[w |-> sh[2], h |-> sh[1], pat |-> "logo"] : sh \in AlignShapes(size)}

AlignInit ==
    /\ assets \in [LogoSizes -> UNION {AlignChoices(sz) : sz \in LogoSizes}]
    /\ \A sz \in LogoSizes : assets[sz] \in AlignChoices(sz)
    /\ cache = <<>>
    /\ loads = [sz \in LogoSizes |-> 0]
    /\ heap = EmptyHeap
    /\ ret = "none"
    /\ pc = "idle"
    /\ lastHit = FALSE
    /\ hist = <<>>
    /\ BlendIdle
    /\ GeomIdle
    /\ ThreadIdle
    /\ BotIdle

SpecAlign == AlignInit /\ [][Next]_vars

(***************************************************************************)
(* Concurrent specification: threads call remove_watermark at once.  A     *)
(* call's only shared state is the lru_cache of _load_alpha_map (line 64): *)
(* the lookup and the store are each atomic, and the wrapped function runs *)
(* between them with no lock held, so other threads run meanwhile.  The    *)
(* rest of the call (lines 66-91) works on the thread's own objects, as in *)
(* the sequential specification.                                           *)
(***************************************************************************)
ConcInit ==
    /\ assets \in [LogoSizes -> UNION {AssetChoices(sz) : sz \in LogoSizes}]
    /\ \A sz \in LogoSizes : assets[sz] \in AssetChoices(sz)
    /\ cache = <<>>
    /\ loads = [sz \in LogoSizes |-> 0]
    /\ ThreadIdle
    /\ CallIdle
    /\ BlendIdle
    /\ GeomIdle
    /\ BotIdle

\* The call's lookup finds the key: the entry is moved to the recent end.
LookupHit(t) ==
    /\ tpc[t] = "idle"
    /\ \E sz \in LogoSizes :
          /\ CacheIndex(cache, sz) # 0
          /\ tkey' = [tkey EXCEPT ![t] = sz]
          /\ tres' = [tres EXCEPT ![t] = [exc |-> "", map |-> cache[CacheIndex(cache, sz)].val]]
          /\ cache' = CacheTouch(cache, sz)
    /\ tpc' = [tpc EXCEPT ![t] = "done"]
    /\ UNCHANGED <<assets, loads>>
    /\ UNCHANGED <<blendVars, geomVars, callVars, botVars>>

\* The call's lookup misses: the thread goes on to run _load_alpha_map.
LookupMiss(t) ==
    /\ tpc[t] = "idle"
    /\ \E sz \in LogoSizes :
          /\ CacheIndex(cache, sz) = 0
          /\ tkey' = [tkey EXCEPT ![t] = sz]
    /\ tpc' = [tpc EXCEPT ![t] = "loading"]
    /\ UNCHANGED <<tres, cacheVars>>
    /\ UNCHANGED <<blendVars, geomVars, callVars, botVars>>

\* The body of _load_alpha_map (lines 29-33) in thread t.
LoadAsset(t) ==
    /\ tpc[t] = "loading"
    /\ LET body == LoadBody(assets[tkey[t]])
       IN /\ tres' = [tres EXCEPT ![t] = body]
          /\ IF body.exc # ""
             THEN tpc' = [tpc EXCEPT ![t] = "done"] /\ UNCHANGED loads
             ELSE /\ tpc' = [tpc EXCEPT ![t] = "loaded"]
                  /\ loads' = [loads EXCEPT ![tkey[t]] = @ + 1]
    /\ UNCHANGED <<tkey, assets, cache>>
    /\ UNCHANGED <<blendVars, geomVars, callVars, botVars>>

\* Back in the wrapper: the result is stored unless the key is there by now.
StoreResult(t) ==
    /\ tpc[t] = "loaded"
    /\ cache' = CacheStore(cache, tkey[t], tres[t].map)
    /\ tpc' = [tpc EXCEPT ![t] = "done"]
    /\ UNCHANGED <<tkey, tres, assets, loads>>
    /\ UNCHANGED <<blendVars, geomVars, callVars, botVars>>

\* The call returns (or raises) and the thread is free for another call.
Return(t) ==
    /\ tpc[t] = "done"
    /\ tpc' = [tpc EXCEPT ![t] = "idle"]
    /\ tres' = [tres EXCEPT ![t] = NoResult]
    /\ UNCHANGED <<tkey, cacheVars>>
    /\ UNCHANGED <<blendVars, geomVars, callVars, botVars>>

ConcNext ==
    \E t \in Threads :
        LookupHit(t) \/ LookupMiss(t) \/ LoadAsset(t) \/ StoreResult(t) \/ Return(t)

SpecConc == ConcInit /\ [][ConcNext]_vars

(***************************************************************************)
(* Bot specification: the handlers of bot.py that use one user's quota and *)
(* history.  A coroutine runs without interruption between two awaits, so  *)
(* each action is the code from one await to the next.  The run starts     *)
(* from user_data as an earlier run left it (PicklePersistence): a count   *)
(* of today's images and a history of earlier documents.                   *)
(***************************************************************************)
\* A history of len earlier documents, the newest first.
OldHistory(len) == [k \in 1..len |-> Entry(HISTORY_SIZE + 1 - k)]

InitialCounts == {0, MAX_IMAGES_PER_DAY - 1, MAX_IMAGES_PER_DAY}

InitialLengths == {0, HISTORY_SIZE - 1, HISTORY_SIZE}

BotInit ==
    /\ today = 1
    /\ \E c \in InitialCounts :
          rate = IF c = 0 THEN NoRate ELSE [date |-> 1, count |-> c]
    /\ \E len \in InitialLengths :
          /\ rate.count > 0 => len > 0
          /\ history = OldHistory(len)
    /\ nextFile = HISTORY_SIZE + 1
    /\ job = [t \in Tasks |-> IdleJob]
    /\ served = 0
    /\ BlendIdle
    /\ GeomIdle
    /\ CacheIdle
    /\ CallIdle
    /\ ThreadIdle

\* The quota check that opens a handler for n images (lines 300-305,
\* 338-345, 431-438): the handler goes on, or is turned away.
Admit(t, kind, n) ==
    /\ job[t].pc = "idle"
    /\ served < MaxRequests
    /\ served' = served + 1
    /\ LET chk == check_rate_limit(rate, today, n)
       IN /\ rate' = chk.rate
          /\ job' = [job EXCEPT ![t] =
                        [pc |-> IF chk.allowed THEN "processing" ELSE "rejected",
                         kind |-> kind, n |-> n, i |-> 0, ok |-> 0]]
    /\ UNCHANGED <<history, today, nextFile>>
    /\ UNCHANGED <<blendVars, geomVars, cacheVars, callVars, threadVars>>

\* _handle_single up to its first await (lines 297-305).
SingleCheck == Admit(0, "single", 1)

\* handle_zip up to the await after the check (lines 409-438).
ZipCheck == \E n \in 1..MaxBatch : Admit(0, "zip", n)

\* _flush_group up to the await after the check (lines 330-345).
FlushCheck(t) == t # 0 /\ \E n \in 1..MaxBatch : Admit(t, "group", n)

\* The handler turned away replies and returns (lines 302-303, 340-341,
\* 433-434).
Dismiss(t) ==
    /\ job[t].pc = "rejected"
    /\ job' = [job EXCEPT ![t] = IdleJob]
    /\ UNCHANGED <<rate, history, today, nextFile, served>>
    /\ UNCHANGED <<blendVars, geomVars, cacheVars, callVars, threadVars>>

\* _handle_single, lines 307-317: the image is processed and the replies
\* are sent, or an exception ends the handler (lines 323-325).
SingleProcess ==
    /\ job[0].pc = "processing" /\ job[0].kind = "single"
    /\ \E done \in BOOLEAN :
          job' = [job EXCEPT ![0] = IF done THEN [@ EXCEPT !.pc = "delivered", !.i = 1, !.ok = 1]
                                    ELSE IdleJob]
    /\ UNCHANGED <<rate, history, today, nextFile, served>>
    /\ UNCHANGED <<blendVars, geomVars, cacheVars, callVars, threadVars>>

\* _handle_single, lines 319-322, after the await of line 317.
SingleRecord ==
    /\ job[0].pc = "delivered" /\ job[0].kind = "single"
    /\ rate' = increment_rate(rate, today, 1)
    /\ history' = add_to_history(history, Entry(nextFile))
    /\ nextFile' = nextFile + 1
    /\ job' = [job EXCEPT ![0] = IdleJob]
    /\ UNCHANGED <<today, served>>
    /\ UNCHANGED <<blendVars, geomVars, cacheVars, callVars, threadVars>>

\* _flush_group, one turn of the loop (lines 348-369): the image is
\* processed, counted and added to the history, or skipped or failed.
\* After the last turn the successes are counted against the quota with
\* no await in between (line 371).
FlushItem(t) ==
    /\ job[t].pc = "processing" /\ job[t].kind = "group"
    /\ \E done \in BOOLEAN :
          LET ok   == job[t].ok + (IF done THEN 1 ELSE 0)
              last == job[t].i + 1 = job[t].n
          IN /\ history' = IF done THEN add_to_history(history, Entry(nextFile))
                                  ELSE history
             /\ nextFile' = IF done THEN nextFile + 1 ELSE nextFile
             /\ rate' = IF last THEN increment_rate(rate, today, ok) ELSE rate
             /\ job' = [job EXCEPT ![t] = IF last THEN IdleJob
                                          ELSE [@ EXCEPT !.i = @ + 1, !.ok = ok]]
    /\ UNCHANGED <<today, served>>
    /\ UNCHANGED <<blendVars, geomVars, cacheVars, callVars, threadVars>>

\* handle_zip, one turn of the loop (lines 444-461), which opens with an
\* await; after the last turn the successes are counted against the quota
\* (line 464) and the archive is sent (line 471).
ZipItem ==
    /\ job[0].pc = "processing" /\ job[0].kind = "zip"
    /\ \E done \in BOOLEAN :
          LET ok   == job[0].ok + (IF done THEN 1 ELSE 0)
              last == job[0].i + 1 = job[0].n
          IN /\ rate' = IF last THEN increment_rate(rate, today, ok) ELSE rate
             /\ job' = [job EXCEPT ![0] = [@ EXCEPT !.i = @ + 1, !.ok = ok,
                                                    !.pc = IF last THEN "delivered" ELSE @]]
    /\ UNCHANGED <<history, today, nextFile, served>>
    /\ UNCHANGED <<blendVars, geomVars, cacheVars, callVars, threadVars>>

\* handle_zip, lines 477-482, after the await of line 471 (no entry when
\* sending the archive raised).
ZipRecord ==
    /\ job[0].pc = "delivered" /\ job[0].kind = "zip"
    /\ \E sent \in BOOLEAN :
          /\ history' = IF sent THEN add_to_history(history, Entry(nextFile))
                                  ELSE history
          /\ nextFile' = IF sent THEN nextFile + 1 ELSE nextFile
    /\ job' = [job EXCEPT ![0] = IdleJob]
    /\ UNCHANGED <<rate, today, served>>
    /\ UNCHANGED <<blendVars, geomVars, cacheVars, callVars, threadVars>>

\* datetime.date.today() moves on.
Midnight ==
    /\ today < NumDays
    /\ today' = today + 1
    /\ UNCHANGED <<rate, history, nextFile, job, served>>
    /\ UNCHANGED <<blendVars, geomVars, cacheVars, callVars, threadVars>>

BotNext ==
    \/ SingleCheck \/ SingleProcess \/ SingleRecord
    \/ ZipCheck \/ ZipItem \/ ZipRecord
    \/ Midnight
    \/ \E t \in Tasks : FlushCheck(t) \/ FlushItem(t) \/ Dismiss(t)

SpecBot == BotInit /\ [][BotNext]_vars

(***************************************************************************)
(* Exact (rational) reference values for the per-channel claims, on the    *)
(* nominal alpha n/d of an alpha input.                                    *)
(***************************************************************************)
\* n/d < p/q, n/d >= p/q.
AlphaBelow(a, p, q) == a[1] * q < p * a[2]

AlphaAtLeast(a, p, q) == ~AlphaBelow(a, p, q)

\* min(n/d, 99/100) as <<numerator, denominator>>.
ExactCapped(a) == IF AlphaBelow(a, 99, 100) THEN a ELSE <<99, 100>>

\* (v - capped*255) / (1 - capped) = ExactNum / ExactDen, ExactDen > 0.
ExactNum(v, a) == v * ExactCapped(a)[2] - 255 * ExactCapped(a)[1]

ExactDen(a) == ExactCapped(a)[2] - ExactCapped(a)[1]

\* The numerator of the exact restored value clamped into [0, 255].
ExactClampedNum(v, a) ==
    IF ExactNum(v, a) < 0 THEN 0
    ELSE IF ExactNum(v, a) > 255 * ExactDen(a) THEN 255 * ExactDen(a)
    ELSE ExactNum(v, a)

\* c is a rounding to the nearest integer of n/d*255 + (1 - n/d)*o (either
\* neighbour at a tie).
IsComposite(c, o, a) == 2 * Abs(c * a[2] - (255 * a[1] + (a[2] - a[1]) * o)) <= a[2]

Blended == bout # NoValue

(***************************************************************************)
(* C1 (as stated): for 0.002 <= A < 0.99 and every original O, blending    *)
(* the composite round(A*255 + (1-A)*O) gives a value within 1 of O.       *)
(***************************************************************************)
C1_RoundTripWithinOne ==
    (Blended /\ AlphaAtLeast(ba, 2, 1000) /\ AlphaBelow(ba, 99, 100))
        => \A o \in Bytes : IsComposite(bv, o, ba) => Abs(bout - o) <= 1

(***************************************************************************)
(* C1 (amended): for 0.002 <= A < 0.99 and every original O, blending the  *)
(* composite gives a value less than 2 + 1/(2(1-A)) away from O, and       *)
(* within 1 of O when A <= 0.49.  (The composite's rounding error of up to *)
(* 1/2 is divided by 1 - A, the quotient is cut to an integer, and the     *)
(* float32 quotient may fall just short of the exact one.)                 *)
(***************************************************************************)
C1_RoundTripWithinBound ==
    (Blended /\ AlphaAtLeast(ba, 2, 1000) /\ AlphaBelow(ba, 99, 100))
        => \A o \in Bytes : IsComposite(bv, o, ba) =>
              /\ 2 * (Abs(bout - o) - 2) * (ba[2] - ba[1]) < ba[2]
              /\ (AlphaBelow(ba, 49, 100) \/ 100 * ba[1] = 49 * ba[2])
                    => Abs(bout - o) <= 1

C1_Witness ==
    /\ Blended
    /\ AlphaAtLeast(ba, 2, 1000) /\ AlphaBelow(ba, 99, 100)
    /\ \E o \in Bytes : IsComposite(bv, o, ba) /\ bv # o /\ bout = o

(***************************************************************************)
(* C3: a pixel whose alpha is below 0.002 keeps its observed value; a      *)
(* pixel whose alpha is 0.002 or more gets the clamped restored value cut  *)
(* to an integer: the value written v' has v' <= restored <= v' + 1, up to *)
(* the float32 rounding of the quotient (under 1/8).                       *)
(***************************************************************************)
C3_MaskingInclusive ==
    Blended =>
        /\ AlphaBelow(ba, 2, 1000) => bout = bv
        /\ AlphaAtLeast(ba, 2, 1000) =>
              /\ 8 * bout * ExactDen(ba) <= 8 * ExactClampedNum(bv, ba) + ExactDen(ba)
              /\ 8 * ExactClampedNum(bv, ba) <= 8 * (bout + 1) * ExactDen(ba) + ExactDen(ba)

C3_Witness == Blended /\ ba = <<20, 10000>> /\ bv = 100 /\ bout = 99

(***************************************************************************)
(* C6: the value written is always in 0..255; a restored value below 0     *)
(* gives 0 and one above 255 gives 255 (never a wrapped value).            *)
(***************************************************************************)
C6_Clamped ==
    Blended =>
        /\ bout \in Bytes
        /\ AlphaAtLeast(ba, 2, 1000) =>
              /\ ExactNum(bv, ba) < 0 => bout = 0
              /\ ExactNum(bv, ba) > 255 * ExactDen(ba) => bout = 255
              /\ Restored(bv, AlphaValue(ba)).s < 0 => bout = 0
              /\ F32Less(F32FromInt(255), Restored(bv, AlphaValue(ba))) => bout = 255

C6_Witness ==
    /\ Blended /\ AlphaAtLeast(ba, 2, 1000)
    /\ ExactNum(bv, ba) < 0 /\ bv > 0 /\ bout = 0

(***************************************************************************)
(* C7 (as stated): the divisor 1 - min(alpha, 0.99) is at least 0.01 and   *)
(* never zero, and a white pixel with alpha 1.0 is restored to 255.        *)
(***************************************************************************)
\* The float x (0 < x < 1) is at least 1/100.
AtLeastHundredth(x) == x.s = 1 /\ 100 * x.m >= Pow2(0 - x.e)

C7_DivisorAtLeastHundredth ==
    Blended =>
        /\ AtLeastHundredth(OneMinus(AlphaValue(ba)))
        /\ (ba = <<10000, 10000>> /\ bv = 255) => bout = 255

(***************************************************************************)
(* C7 (amended): the divisor is 1 - min(alpha, float32(0.99)), which is    *)
(* never zero and at least 0.0099999 (float32(0.99) lies just above 0.99,  *)
(* so the divisor falls just below 0.01); a white pixel with alpha 1.0 is  *)
(* restored to 255.                                                        *)
(***************************************************************************)
C7_DivisorPositive ==
    Blended =>
        /\ OneMinus(AlphaValue(ba)).s = 1
        /\ ~F32Less(OneMinus(AlphaValue(ba)), F32FromRatio(99999, 10000000))
        /\ (ba = <<10000, 10000>> /\ bv = 255) => bout = 255

C7_Witness == Blended /\ ba = <<10000, 10000>> /\ bv = 255 /\ bout = 255

(***************************************************************************)
(* C4: the large profile (96, 64, 64) is chosen exactly when both sides    *)
(* exceed 1024, the small profile (48, 32, 32) otherwise: 1024x1024 and    *)
(* images with one side above 1024 are small, 1025x1025 is large.          *)
(***************************************************************************)
LargeProfile == [logo_size |-> 96, margin_right |-> 64, margin_bottom |-> 64]

SmallProfile == [logo_size |-> 48, margin_right |-> 32, margin_bottom |-> 32]

C4_ProfileByBothSides ==
    gcfg # NoConfig =>
        /\ gcfg \in {LargeProfile, SmallProfile}
        /\ gcfg = LargeProfile <=> (gw >= 1025 /\ gh >= 1025)
        /\ (gw = 1024 /\ gh = 1024) => gcfg = SmallProfile
        /\ (gw <= 1024 \/ gh <= 1024) => gcfg = SmallProfile

C4_Witness == gw = 1025 /\ gh = 1025 /\ gcfg = LargeProfile

(***************************************************************************)
(* C5: for an image at least 80 wide and 80 high the rectangle is          *)
(* x = width - margin_right - logo_size, y = height - margin_bottom -      *)
(* logo_size, w = h = logo_size, with x >= 0, y >= 0 and the rectangle     *)
(* inside the image.                                                       *)
(***************************************************************************)
C5_RectangleInsideImage ==
    (gpos # NoPosition /\ gw >= 80 /\ gh >= 80) =>
        /\ gpos.x = gw - gcfg.margin_right - gcfg.logo_size
        /\ gpos.y = gh - gcfg.margin_bottom - gcfg.logo_size
        /\ gpos.w = gcfg.logo_size /\ gpos.h = gcfg.logo_size
        /\ gpos.x >= 0 /\ gpos.y >= 0
        /\ gpos.x + gpos.w <= gw /\ gpos.y + gpos.h <= gh

C5_Witness == gw = 80 /\ gh = 80 /\ gpos = [x |-> 0, y |-> 0, w |-> 48, h |-> 48]

(***************************************************************************)
(* C2: the returned image has the input's width and height and equals the  *)
(* RGB-normalised input at every pixel outside the watermark rectangle.    *)
(***************************************************************************)
InRect(p, img) ==
    InBox(p, RectOf(img.w, img.h).x, RectOf(img.w, img.h).y,
          RectOf(img.w, img.h).w, RectOf(img.w, img.h).h)

C2_SameOutsideRectangle ==
    (pc = "returned" /\ ret = "out") =>
        /\ heap.out.w = heap.caller.w
        /\ heap.out.h = heap.caller.h
        /\ heap.out.mode = "RGB"
        /\ DOMAIN heap.out.px = DOMAIN heap.caller.px
        /\ \A p \in DOMAIN heap.caller.px :
              ~InRect(p, heap.caller) => heap.out.px[p] = ConvertRGB(heap.caller).px[p]

C2_Witness ==
    /\ pc = "returned" /\ ret = "out"
    /\ \E p \in DOMAIN heap.caller.px :
          InRect(p, heap.caller) /\ heap.out.px[p] # ConvertRGB(heap.caller).px[p]
    /\ \E p \in DOMAIN heap.caller.px :
          ~InRect(p, heap.caller) /\ heap.out.px[p] = ConvertRGB(heap.caller).px[p]

(***************************************************************************)
(* C8: a call of remove_watermark, returning or raising, leaves the image  *)
(* object the caller passed as it was, and what it returns is another      *)
(* object.                                                                 *)
(***************************************************************************)
C8_CallerImageUntouched ==
    [][pc = "ready" => (heap'.caller = heap.caller /\ ret' # "caller")]_vars

C8_Witness ==
    /\ pc = "returned" /\ ret = "out"
    /\ heap.caller.mode = "RGB"
    /\ heap.out.px # heap.caller.px

(***************************************************************************)
(* C9: in a sequential series of calls the asset of a logo size is loaded  *)
(* and decoded at most once; the cache holds the alpha maps of both sizes  *)
(* together, and every entry is the alpha map of its size's asset.         *)
(***************************************************************************)
C9_LoadedAtMostOnce ==
    /\ \A sz \in LogoSizes : loads[sz] <= 1
    /\ \A sz \in LogoSizes : loads[sz] = 1 <=> CacheIndex(cache, sz) # 0
    /\ \A i \in 1..Len(cache) :
          /\ LoadBody(assets[cache[i].key]).exc = ""
          /\ cache[i].val = [h |-> assets[cache[i].key].h, w |-> assets[cache[i].key].w,
                             pat |-> assets[cache[i].key].pat]

C9_Witness ==
    /\ pc = "returned" /\ ret = "out" /\ lastHit
    /\ hist = <<48, 96>>
    /\ Len(cache) = 2
    /\ loads[48] = 1 /\ loads[96] = 1

(***************************************************************************)
(* C10 (as stated): when threads call concurrently while the cache has no  *)
(* entry for a logo size, the asset is loaded by only one of them.         *)
(***************************************************************************)
C10_LoadedByOneThread == \A sz \in LogoSizes : loads[sz] <= 1

(***************************************************************************)
(* C10 (amended): each thread whose lookup missed loads the asset itself   *)
(* (at most once per thread and logo size), but the cache entry is         *)
(* populated once: the first result stored stays and is never replaced or  *)
(* duplicated, and every caller gets the alpha map of the asset.           *)
(***************************************************************************)
AssetMap(sz) == [h |-> assets[sz].h, w |-> assets[sz].w, pat |-> assets[sz].pat]

C10_FirstStoreWins ==
    [][/\ \A sz \in LogoSizes :
            /\ loads'[sz] <= NumThreads
            /\ Cardinality({i \in 1..Len(cache') : cache'[i].key = sz}) <= 1
            /\ CacheIndex(cache, sz) # 0 =>
                  /\ CacheIndex(cache', sz) # 0
                  /\ cache'[CacheIndex(cache', sz)].val = cache[CacheIndex(cache, sz)].val
       /\ \A t \in Threads :
            (tpc'[t] = "done" /\ tres'[t].exc = "") => tres'[t].map = AssetMap(tkey'[t])
      ]_vars

C10_Witness ==
    /\ loads[48] = 2
    /\ Len(cache) = 1 /\ cache[1].key = 48
    /\ \A t \in {1, 2} : tpc[t] = "done" /\ tkey[t] = 48 /\ tres[t] = [exc |-> "", map |-> AssetMap(48)]

(***************************************************************************)
(* C11 (as stated): a call whose logo size has no asset fails with         *)
(* AssetNotFoundError, one whose asset cannot be decoded fails with        *)
(* AssetDecodeError.                                                       *)
(***************************************************************************)
CalledKey == KeyOf(heap.caller)

LoadErrors == {"FileNotFoundError", "UnidentifiedImageError", "OSError"}

C12_AlignedBothWays ==
    pc = "returned" =>
        /\ ret = "out"
        /\ \A p \in DOMAIN heap.out.px :
              InRect(p, heap.caller) =>
                 LET r    == RectOf(heap.caller.w, heap.caller.h)
                     amap == AssetMap(CalledKey)
                     conv == ConvertRGB(heap.caller).px[p]
                 IN heap.out.px[p] =
                       IF p[2] - r.y < amap.h /\ p[1] - r.x < amap.w
                       THEN BlendPixel(conv, AlphaAt(amap, p[2] - r.y, p[1] - r.x))
                       ELSE conv

(***************************************************************************)
(* C13: for one user, through every interleaving of single-image handlers, *)
(* media-group flushes and ZIP handlers, the recorded count never exceeds  *)
(* MAX_IMAGES_PER_DAY; a request for n images is admitted only if          *)
(* n <= MAX_IMAGES_PER_DAY - count, and a rejected request leaves the      *)
(* count unchanged.                                                        *)
(***************************************************************************)
Admitted(t) == job[t].pc = "idle" /\ job'[t].pc = "processing"

Rejected(t) == job[t].pc = "idle" /\ job'[t].pc = "rejected"

C14_HistoryNewestFirst ==
    [][/\ Len(history') <= HISTORY_SIZE
       /\ nextFile' = nextFile => history' = history
       /\ nextFile' # nextFile =>
             /\ history'[1].file_id = nextFile
             /\ Len(history') = Min2(Len(history) + 1, HISTORY_SIZE)
             /\ \A k \in 2..Len(history') : history'[k] = history[k - 1]
      ]_vars

\* A full history after two more documents: the two oldest entries are
\* gone, the newest is first.
C14_Witness ==
    /\ Len(history) = HISTORY_SIZE
    /\ history[1] = Entry(HISTORY_SIZE + 2)
    /\ history[2] = Entry(HISTORY_SIZE + 1)
    /\ history[3] = Entry(HISTORY_SIZE)
    /\ history[HISTORY_SIZE] = Entry(3)

====
